---- MODULE Spec2Model ----
(***************************************************************************)
(* Model of the scheduled job pipeline of src/main.py: the backup job      *)
(* (create_backup), the bot health check (check_bots_status), the content  *)
(* change detector (check_pose_endpoints), the file send with rate-limit   *)
(* retry (send_document_with_flood_wait) and the wiring done by main.      *)
(*                                                                         *)
(* All coroutines run on one asyncio event loop: a coroutine runs without  *)
(* interruption from one await to the next, so every action below is the   *)
(* code between two awaits.  subprocess.run is a synchronous call: while   *)
(* it runs the event loop is blocked and no other coroutine takes a step.  *)
(*                                                                         *)
(* When a job function ends, its caller goes on in the same turn of the    *)
(* event loop (main after its await, the executor's done callback).  The   *)
(* model keeps the ended execution visible as a state of its own, with     *)
(* what the run did, and lets nothing else run before the caller has       *)
(* taken it.                                                               *)
(***************************************************************************)
EXTENDS Integers, Sequences, FiniteSets, TLC

VARIABLES
    backup_in_progress,   \* main.py:66, the global guard flag
    tasks,                \* one record per execution slot of a job function
    main_pc,              \* position of the coroutine main
    scheduler_running,    \* scheduler.running (main.py:532, 568)
    snapshots,            \* POSE_DATA_DIR/<name>.json, "" when the file is absent
    env,                  \* the environment options read at import
    probe,                \* input and result of the pure-function specification
    backup_dir,           \* the files in BACKUP_DIR, the oldest first
    last_reported_progress  \* main.py:73, the last percentage logged

vars ==
    <<backup_in_progress, tasks, main_pc, scheduler_running, snapshots, env,
      probe, backup_dir, last_reported_progress>>

(***************************************************************************)
(* Bounds of the model.                                                    *)
(***************************************************************************)
MaxCallers == 2     \* concurrent direct invocations of create_backup
MaxFlood == 2       \* rate-limit answers the transport gives to one send
MaxWait == 2        \* largest wait (seconds) a rate-limit answer carries
MaxBots == 2        \* length of the bot roster of one cycle
MaxOver == 60       \* how far a probed detail string is from the limit
MaxFiles == 3       \* files in BACKUP_DIR
MaxKeep == 2        \* largest KEEP_LOCAL_BACKUPS
MaxTotal == 3       \* size (in chunks) of an uploaded file

(***************************************************************************)
(* Program constants.                                                      *)
(***************************************************************************)
DETAILS_LIMIT == 3500       \* main.py:95
DIFF_INLINE_LIMIT == 3500   \* main.py:446
max_instances == 1          \* main.py:509, 519, 529
MIN_FLOOD_SLEEP == 1        \* main.py:201
NOT_REPORTED == -1          \* main.py:73, 172
PROGRESS_STEP == 10         \* main.py:82

Max(a, b) == IF a > b THEN a ELSE b

(***************************************************************************)
(* Text is a sequence of characters.                                       *)
(***************************************************************************)
Ellipsis == <<".", ".", ".">>
Chars(n) == [i \in 1..n |-> "x"]
DiskFull == <<"d", "i", "s", "k", " ", "f", "u", "l", "l">>
TimeoutText == <<"t", "i", "m", "e", "d", " ", "o", "u", "t">>
FaultText == <<"e", "r", "r", "o", "r">>

\* the excerpt without the cut of main.py:95
DetailsShortNoCut(details) == details

\* main.py:95  (details[:3500] + '...') if len(details) > 3500 else details
DetailsShort(details) ==
    IF Len(details) > DETAILS_LIMIT
        THEN SubSeq(details, 1, DETAILS_LIMIT) \o Ellipsis
        ELSE details

\* main.py:91-96  the failure message: the reason, and the excerpt when there
\* are details (an empty or missing detail adds no section)
FailureMessage(reason, details) ==
    [kind |-> "failure", reason |-> reason,
     details |-> IF details = <<>> THEN <<>> ELSE DetailsShort(details)]

\* the exit-code reason without the f-string field of main.py:140
ExitReasonNoCode(rc) == <<"mongodump exited with error code", 0>>

\* main.py:140, 155, 159  the three failure reasons
ExitReason(rc) == <<"mongodump exited with error code", rc>>
TimeoutReason == <<"mongodump timeout (60 minutes exceeded)">>
GenericReason == <<"unexpected error while creating backup">>

(***************************************************************************)
(* Execution slots.  A slot is <<function, caller, number>>: the scheduler *)
(* keeps one instance per job id, main awaits the two first runs itself,   *)
(* and the numbered callers invoke create_backup directly.                 *)
(***************************************************************************)
JobIds == {"backup_job", "bot_check_job", "pose_check_job"}

\* main.py:502, 512, 522  the function each job id runs
JobFn(job) ==
    CASE job = "backup_job" -> "create_backup"
      [] job = "bot_check_job" -> "check_bots_status"
      [] job = "pose_check_job" -> "check_pose_endpoints"

Callers == 1..MaxCallers

Slots ==
    {<<JobFn(j), "scheduler", 0>> : j \in JobIds}
    \cup {<<"check_bots_status", "main", 0>>, <<"check_pose_endpoints", "main", 0>>}
    \cup {<<"create_backup", "caller", c>> : c \in Callers}

Fn(s) == s[1]
SlotsOf(fn) == {s \in Slots : Fn(s) = fn}

FinalPcs == {"returned", "raised", "cancelled"}
Active(s) == tasks[s].pc \notin ({"idle"} \cup FinalPcs)

\* subprocess.run (main.py:130) does not yield to the event loop
LoopBlocked == \E s \in SlotsOf("create_backup") : tasks[s].pc = "dumping"
\* an execution has ended and its caller has not gone on yet
Ended == \E s \in Slots : tasks[s].pc \in FinalPcs

\* the event loop can give a turn to a task, a timer or an answer
LoopFree == ~LoopBlocked /\ ~Ended /\ main_pc # "stopped"

(***************************************************************************)
(* cleanup_old_backups, main.py:205-220                                    *)
(*                                                                         *)
(* A file is a record with a name <<prefix, stamp, suffix>>, a             *)
(* modification time and the outcome of the run that made it.              *)
(***************************************************************************)
\* main.py:116  f"mongodb_backup_{timestamp}.gz"
BackupName(stamp) == <<"mongodb_backup_", stamp, ".gz">>

\* main.py:209  glob('mongodb_backup_*.gz')
Matches(name) == name[1] = "mongodb_backup_" /\ name[3] = ".gz"
Glob(files) == {f \in files : Matches(f.name)}

\* the sort of main.py:208-212 without reverse=True
SortedOldestFirst(files) ==
    [i \in 1..Cardinality(files) |->
        CHOOSE f \in files :
            Cardinality({g \in files : g.mtime < f.mtime}) = i - 1]

\* main.py:208-212  sorted(..., key=st_mtime, reverse=True): with distinct
\* modification times the i-th file is the one with i - 1 newer files
SortedNewestFirst(files) ==
    [i \in 1..Cardinality(files) |->
        CHOOSE f \in files :
            Cardinality({g \in files : g.mtime > f.mtime}) = i - 1]

\* what can go wrong in one call: nothing, stat() raising in the sort key, or
\* the k-th unlink() raising
NoFault == [at |-> "none", k |-> 0]
CleanupFaults ==
    {NoFault, [at |-> "stat", k |-> 0]}
    \cup {[at |-> "unlink", k |-> k] : k \in 1..MaxFiles}

\* main.py:207-220  the files the call deletes and whether it caught an
\* exception; backup_files[KEEP:] for a count that is not negative
Prune(files, keep, fault) ==
    LET backup_files == SortedNewestFirst(Glob(files))
        n == Len(backup_files)
        old == IF n > keep THEN SubSeq(backup_files, keep + 1, n) ELSE <<>>
        raised == \/ fault.at = "stat" /\ Glob(files) # {}
                  \/ fault.at = "unlink" /\ fault.k <= Len(old)
        done == IF fault.at = "stat" THEN 0
                ELSE IF fault.at = "unlink" /\ fault.k <= Len(old) THEN fault.k - 1
                ELSE Len(old)
    IN  [unlinked |-> {old[i] : i \in 1..done}, raised |-> raised]

\* the files of BACKUP_DIR with their modification times: the directory is
\* kept in the order the files were written
Files(dir) ==
    {[name |-> dir[i].name, mtime |-> i, made |-> dir[i].made] : i \in 1..Len(dir)}

\* the directory without the files of the set gone, in the same order
Without(dir, gone) ==
    LET left == {i \in 1..Len(dir) :
                    [name |-> dir[i].name, mtime |-> i, made |-> dir[i].made] \notin gone}
    IN  [j \in 1..Cardinality(left) |->
            dir[CHOOSE i \in left : Cardinality({k \in left : k < i}) = j - 1]]

\* main.py:152, 205-220  cleanup_old_backups as create_backup sees it: it
\* catches its own faults
cleanup_old_backups(rec, fault) ==
    [rec EXCEPT !.prune = IF fault THEN "failed" ELSE "ok", !.prunes = @ + 1]

(***************************************************************************)
(* create_backup, main.py:106-163                                          *)
(***************************************************************************)
\* what one call of send_document_with_flood_wait has done so far: its keyword
\* arguments, the arguments of its latest send_document call, the number of
\* calls, of rate-limit answers and of sleeps, and the wait the latest
\* rate-limit answer asked for with the sleep that followed it
NoDocument == [document |-> <<>>, caption |-> <<>>]
NoSend ==
    [kwargs |-> NoDocument, sent |-> NoDocument, calls |-> 0, floods |-> 0,
     sleeps |-> 0, wait |-> 0, slept |-> 0]

\* main.py:195-199  send_document_with_flood_wait is called: its first
\* send_document call
FirstCall(kwargs) == [NoSend EXCEPT !.kwargs = kwargs, !.sent = kwargs, !.calls = 1]

BackupIdle ==
    [pc |-> "idle", skipped |-> FALSE, setFlag |-> FALSE,
     dump |-> "none", rc |-> 0, stderr |-> <<>>, dumps |-> 0,
     texts |-> <<>>, upload |-> "none", prune |-> "none", prunes |-> 0,
     send |-> NoSend, unlinked |-> {}, callback |-> <<>>, logged |-> <<>>]

ExitCodes == {1, 2}
StderrTexts == {<<>>, DiskFull}

\* create_backup without the test of main.py:110
EntryGuardAbsent(flag) == FALSE

\* main.py:110  the entry guard
EntryGuard(flag) == flag

\* the flag cleared at the end of the try body instead of in a finally block
FinallyOnSuccessOnly(flag, dump) == IF dump = "ok" THEN FALSE ELSE flag

\* main.py:162-163  the finalizer: the value of the flag when the run returns
Finally(flag, dump) == FALSE

\* main.py:106-130  entry: the guard, the flag, and the call of the dump tool
create_backup(s) ==
    /\ Fn(s) = "create_backup"
    /\ tasks[s].pc = "idle"
    /\ IF EntryGuard(backup_in_progress)
         THEN /\ tasks' = [tasks EXCEPT ![s] =
                     [BackupIdle EXCEPT !.pc = "returned", !.skipped = TRUE]]
              /\ UNCHANGED backup_in_progress
         ELSE /\ Len(backup_dir) < MaxFiles
              /\ backup_in_progress' = TRUE
              /\ tasks' = [tasks EXCEPT ![s] =
                     [BackupIdle EXCEPT !.pc = "dumping", !.setFlag = TRUE,
                                        !.dumps = 1]]
    /\ UNCHANGED <<scheduler_running, snapshots, env,
                 probe, backup_dir, last_reported_progress>>

\* main.py:87-101  send_failure_notification up to its await of send_message
send_failure_notification(rec, reason, details) ==
    [rec EXCEPT !.pc = "notify",
                !.texts = Append(@, [msg |-> FailureMessage(reason, details),
                                     outcome |-> "pending"])]

\* main.py:166-187  send_to_telegram up to the first await of send_document
BackupDocument == [document |-> <<"backup_path">>, caption |-> <<"success caption">>]

send_to_telegram(rec) ==
    [rec EXCEPT !.pc = "send_document", !.send = FirstCall(BackupDocument)]

\* the handlers of main.py:154-161 with "except Exception" placed first
HandlerReasonGenericFirst(raised) == GenericReason

\* main.py:154-161  the handler chosen for what subprocess.run raised
HandlerReason(raised) ==
    IF raised = "timeout" THEN TimeoutReason ELSE GenericReason

\* main.py:116-127  the archive the dump tool was told to write, as the run
\* with this outcome leaves it in BACKUP_DIR
Archive(made) == [name |-> BackupName("timestamp"), made |-> made]

\* main.py:172  send_to_telegram resets the tracker
ProgressReset == NOT_REPORTED

\* main.py:130-161  the dump tool ends: exit code, timeout or another fault;
\* the run goes on to its next await.  A dump that fails or is killed at the
\* timeout may have written a part of its archive; nothing removes it.
DumpEnds(s) ==
    /\ Fn(s) = "create_backup"
    /\ tasks[s].pc = "dumping"
    /\ \/ /\ \E rc \in ExitCodes, err \in StderrTexts :
               tasks' = [tasks EXCEPT ![s] =
                   send_failure_notification(
                       [@ EXCEPT !.dump = "nonzero", !.rc = rc, !.stderr = err],
                       ExitReason(rc), err)]
          /\ \/ backup_dir' = Append(backup_dir, Archive("nonzero"))
             \/ UNCHANGED backup_dir
          /\ UNCHANGED last_reported_progress
       \/ \* exit code 0 and os.path.getsize succeeds
          /\ tasks' = [tasks EXCEPT ![s] = send_to_telegram([@ EXCEPT !.dump = "ok"])]
          /\ backup_dir' = Append(backup_dir, Archive("ok"))
          /\ last_reported_progress' = ProgressReset
       \/ \* exit code 0 and os.path.getsize raises (main.py:145)
          /\ tasks' = [tasks EXCEPT ![s] =
                send_failure_notification([@ EXCEPT !.dump = "nosize"],
                                          HandlerReason("fault"), FaultText)]
          /\ UNCHANGED <<backup_dir, last_reported_progress>>
       \/ /\ tasks' = [tasks EXCEPT ![s] =
                send_failure_notification([@ EXCEPT !.dump = "timeout"],
                                          HandlerReason("timeout"), TimeoutText)]
          /\ \/ backup_dir' = Append(backup_dir, Archive("timeout"))
             \/ UNCHANGED backup_dir
          /\ UNCHANGED last_reported_progress
       \/ /\ tasks' = [tasks EXCEPT ![s] =
                send_failure_notification([@ EXCEPT !.dump = "fault"],
                                          HandlerReason("fault"), FaultText)]
          /\ UNCHANGED <<backup_dir, last_reported_progress>>
    /\ UNCHANGED <<backup_in_progress, main_pc, scheduler_running, snapshots, env, probe>>

\* the answers of the transport to one send
TextAnswers == {"ok", "flood", "fault"}

SetLast(seq, field, v) == [seq EXCEPT ![Len(seq)] = [@ EXCEPT ![field] = v]]

\* main.py:98-103, 162-163  the transport answers the failure notification;
\* every exception (rate limit included) is logged and swallowed, then the
\* finalizer of create_backup runs
NotifyAnswered(s) ==
    /\ Fn(s) = "create_backup"
    /\ tasks[s].pc = "notify"
    /\ LoopFree
    /\ \E a \in TextAnswers :
         tasks' = [tasks EXCEPT ![s] =
            [@ EXCEPT !.pc = "returned",
                      !.texts = SetLast(@, "outcome",
                          IF a = "ok" THEN "delivered" ELSE "dropped_" \o a)]]
    /\ backup_in_progress' = Finally(backup_in_progress, tasks[s].dump)
    /\ UNCHANGED <<main_pc, scheduler_running, snapshots, env,
                 probe, backup_dir, last_reported_progress>>

(***************************************************************************)
(* send_document_with_flood_wait, main.py:195-203                          *)
(***************************************************************************)
WaitValues == 0..MaxWait

\* the wait of main.py:201 without max(..., 1)
WaitSecondsUnclamped(value) == value

\* main.py:201  wait_seconds = max(int(getattr(e, "value", 0)), 1)
WaitSeconds(value) == Max(value, MIN_FLOOD_SLEEP)

\* main.py:200-203  FloodWait caught: compute the wait and go to sleep
FloodWaitCaught(rec, value) ==
    [rec EXCEPT !.pc = "flood_sleep",
                !.send = [@ EXCEPT !.floods = @ + 1, !.wait = value,
                                   !.sleeps = @ + 1, !.slept = WaitSeconds(value)]]

\* main.py:197-199  the sleep is over: the loop calls send_document again
\* with the same keyword arguments
FloodSleepOver(s) ==
    /\ tasks[s].pc = "flood_sleep"
    /\ LoopFree
    /\ tasks' = [tasks EXCEPT ![s] =
          [@ EXCEPT !.pc = "send_document",
                    !.send = [@ EXCEPT !.calls = @ + 1,
                                       !.sent = tasks[s].send.kwargs]]]
    /\ UNCHANGED <<backup_in_progress, main_pc, scheduler_running, snapshots, env,
                 probe, backup_dir, last_reported_progress>>

\* send_to_telegram without the handler of main.py:191-192
UploadFaultEscapes(a) == a = "failed"

\* main.py:191-192  except Exception: no answer of the upload leaves
\* send_to_telegram as an exception
UploadRaises(a) == FALSE

\* main.py:150-152, 181-192, 162-163  the transport answers the upload of
\* the backup: a rate limit is retried, success and any other fault both go
\* on to the pruning and the finalizer; an exception that left
\* send_to_telegram would reach the handler of main.py:158-161
UploadAnswered(s) ==
    /\ Fn(s) = "create_backup"
    /\ tasks[s].pc = "send_document"
    /\ LoopFree
    /\ \/ /\ tasks[s].send.floods < MaxFlood
          /\ \E v \in WaitValues :
                tasks' = [tasks EXCEPT ![s] = FloodWaitCaught(@, v)]
          /\ UNCHANGED <<backup_in_progress, backup_dir>>
       \/ \E a \in {"delivered", "failed"}, fault \in CleanupFaults :
            LET pruned == Prune(Files(backup_dir), env.KEEP_LOCAL_BACKUPS, fault) IN
            IF UploadRaises(a)
              THEN /\ tasks' = [tasks EXCEPT ![s] =
                         send_failure_notification([@ EXCEPT !.upload = a],
                                                   HandlerReason("fault"), FaultText)]
                   /\ UNCHANGED <<backup_in_progress, backup_dir>>
              ELSE /\ tasks' = [tasks EXCEPT ![s] =
                         cleanup_old_backups(
                             [@ EXCEPT !.pc = "returned", !.upload = a,
                                       !.unlinked = {f.made : f \in pruned.unlinked}],
                             pruned.raised)]
                   /\ backup_dir' = Without(backup_dir, pruned.unlinked)
                   /\ backup_in_progress' = Finally(backup_in_progress, tasks[s].dump)
    /\ UNCHANGED <<main_pc, scheduler_running, snapshots, env, probe, last_reported_progress>>

(***************************************************************************)
(* progress_callback, main.py:75-84                                        *)
(***************************************************************************)
\* main.py:81  int((current / total) * 100); for the sizes of the model the
\* float product truncates to the integer quotient
Percentage(current, total) == (current * 100) \div total

\* the test of main.py:82 with >= for >
ShouldLogRepeats(percentage, last) ==
    percentage % PROGRESS_STEP = 0 /\ percentage >= last

\* main.py:82  the test that decides whether the percentage is logged
ShouldLog(percentage, last) ==
    percentage % PROGRESS_STEP = 0 /\ percentage > last

\* main.py:75-84  the lines the call logs and the tracker it leaves
progress_callback(current, total, last) ==
    IF total = 0
      THEN [lines |-> <<>>, last |-> last]
      ELSE IF ShouldLog(Percentage(current, total), last)
        THEN [lines |-> <<Percentage(current, total)>>,
              last |-> Percentage(current, total)]
        ELSE [lines |-> <<>>, last |-> last]

Totals == {0, MaxTotal}

\* main.py:181-187  the transport calls progress=progress_callback while
\* send_document of the backup is awaited
ProgressCalled(s) ==
    /\ Fn(s) = "create_backup"
    /\ tasks[s].pc = "send_document"
    /\ LoopFree
    /\ \E total \in Totals :
         \E current \in 0..total :
            LET r == progress_callback(current, total, last_reported_progress) IN
            /\ tasks' = [tasks EXCEPT ![s] =
                  [@ EXCEPT !.callback = <<current, total>>,
                            !.logged = @ \o r.lines]]
            /\ last_reported_progress' = r.last
    /\ UNCHANGED <<backup_in_progress, main_pc, scheduler_running, snapshots, env,
                   probe, backup_dir>>

(***************************************************************************)
(* check_bots_status, main.py:285-383                                      *)
(***************************************************************************)
BotNumbers == 1..MaxBots
NoBot == [shape |-> "none", token |-> FALSE, number |-> 0]

\* one element of payload["items"]: a dict with an optional bot_token and a
\* bot_number, or a JSON value that is no dict
BotItems ==
    [shape : {"dict"}, token : BOOLEAN, number : BotNumbers]
    \cup {[shape |-> "other", token |-> FALSE, number |-> 0]}

\* faults counts the bots of the cycle whose identity check or alert failed
BotsIdle ==
    [pc |-> "idle", inventory |-> {}, left |-> 0, cur |-> NoBot,
     queried |-> 0, status |-> "none", texts |-> <<>>, ended |-> "none",
     faults |-> 0]

\* main.py:372-377  the alert names the username and the number of the bot
BanAlert(item) == [kind |-> "ban", number |-> item.number, username |-> item.number]

\* main.py:347-364  the for loop from its current position to the next await:
\* the set of records the run can be in when it next suspends or ends.  The
\* roster is an opaque JSON list: each element is drawn when the loop reads it.
RECURSIVE BotsLoop(_, _)
BotsLoop(rec, left) ==
    IF left = 0
      THEN {[rec EXCEPT !.pc = "returned", !.left = 0, !.ended = "roster done"]}
      ELSE UNION {
        IF item.shape # "dict"
          THEN \* item.get raises AttributeError (main.py:348)
               {[rec EXCEPT !.pc = "raised", !.left = left - 1, !.cur = item,
                            !.queried = 0, !.status = "none", !.texts = <<>>,
                            !.ended = "malformed item"]}
          ELSE IF ~item.token \/ item.number \notin rec.inventory
            THEN \* continue (main.py:349-350, 355-356)
                 BotsLoop([rec EXCEPT !.cur = item, !.queried = 0,
                                      !.status = "none", !.texts = <<>>], left - 1)
            ELSE \* await getMe (main.py:358-364)
                 {[rec EXCEPT !.pc = "get_me", !.left = left - 1, !.cur = item,
                              !.queried = 1, !.status = "none", !.texts = <<>>]}
        : item \in BotItems}

\* main.py:285-300  entry: the API key check and the first fetch
check_bots_status(s) ==
    /\ Fn(s) = "check_bots_status"
    /\ tasks[s].pc = "idle"
    /\ tasks' = [tasks EXCEPT ![s] =
          IF env.CONTROL_API_KEY
            THEN [BotsIdle EXCEPT !.pc = "fetch_containers"]
            ELSE [BotsIdle EXCEPT !.pc = "returned", !.ended = "no api key"]]
    /\ UNCHANGED <<backup_in_progress, scheduler_running, snapshots, env,
                 probe, backup_dir, last_reported_progress>>

\* main.py:301-333  the container listing answers
ContainersFetched(s) ==
    /\ Fn(s) = "check_bots_status"
    /\ tasks[s].pc = "fetch_containers"
    /\ LoopFree
    /\ \/ \E why \in {"containers fetch fault", "containers status", "containers format"} :
            tasks' = [tasks EXCEPT ![s] = [@ EXCEPT !.pc = "returned", !.ended = why]]
       \/ \E inv \in SUBSET BotNumbers :
            tasks' = [tasks EXCEPT ![s] =
                [@ EXCEPT !.pc = "fetch_roster", !.inventory = inv]]
    /\ UNCHANGED <<backup_in_progress, main_pc, scheduler_running, snapshots, env,
                 probe, backup_dir, last_reported_progress>>

\* main.py:334-364  the roster answers
RosterFetched(s) ==
    /\ Fn(s) = "check_bots_status"
    /\ tasks[s].pc = "fetch_roster"
    /\ LoopFree
    /\ \/ \E why \in {"roster fetch fault", "roster status", "roster empty"} :
            tasks' = [tasks EXCEPT ![s] = [@ EXCEPT !.pc = "returned", !.ended = why]]
       \/ \* the payload is no dict: payload.get raises (main.py:342)
          tasks' = [tasks EXCEPT ![s] =
                [@ EXCEPT !.pc = "raised", !.ended = "malformed roster"]]
       \/ \E n \in 1..MaxBots :
            \E rec \in BotsLoop(tasks[s], n) :
                tasks' = [tasks EXCEPT ![s] = rec]
    /\ UNCHANGED <<backup_in_progress, main_pc, scheduler_running, snapshots, env,
                 probe, backup_dir, last_reported_progress>>

GetMeAnswers == {"200", "401", "500", "exception"}

\* the test of main.py:367 widened to every status but 200
BannedOrFailing(status) == status # "200"

\* main.py:365-367  status 200 goes on, status 401 alerts
Banned(status) == status = "401"

\* main.py:365-383  getMe answers: 401 sends the alert, anything else goes on
GetMeAnswered(s) ==
    /\ Fn(s) = "check_bots_status"
    /\ tasks[s].pc = "get_me"
    /\ LoopFree
    /\ \E a \in GetMeAnswers :
         IF Banned(a)
           THEN tasks' = [tasks EXCEPT ![s] =
                   [@ EXCEPT !.pc = "send_message", !.status = a,
                             !.texts = Append(@, [msg |-> BanAlert(tasks[s].cur),
                                                  outcome |-> "pending"])]]
           ELSE \E rec \in BotsLoop(
                        [tasks[s] EXCEPT !.status = a,
                                         !.faults = IF a = "200" THEN @ ELSE @ + 1],
                        tasks[s].left) :
                   tasks' = [tasks EXCEPT ![s] = rec]
    /\ UNCHANGED <<backup_in_progress, main_pc, scheduler_running, snapshots, env,
                 probe, backup_dir, last_reported_progress>>

\* main.py:378-381  the transport answers the ban alert; every exception is
\* logged and the loop goes on
BanAlertAnswered(s) ==
    /\ Fn(s) = "check_bots_status"
    /\ tasks[s].pc = "send_message"
    /\ LoopFree
    /\ \E a \in TextAnswers :
         \E rec \in BotsLoop(
                [tasks[s] EXCEPT !.texts = SetLast(@, "outcome",
                                    IF a = "ok" THEN "delivered" ELSE "dropped_" \o a),
                                 !.faults = IF a = "ok" THEN @ ELSE @ + 1],
                tasks[s].left) :
            tasks' = [tasks EXCEPT ![s] = rec]
    /\ UNCHANGED <<backup_in_progress, main_pc, scheduler_running, snapshots, env,
                 probe, backup_dir, last_reported_progress>>

(***************************************************************************)
(* check_pose_endpoints, main.py:386-457                                   *)
(***************************************************************************)
\* main.py:407-410  the endpoints in the order the dict is iterated
Endpoints == <<"video_all_poses", "pose_poses">>

EndpointNames == {Endpoints[i] : i \in 1..Len(Endpoints)}

\* a JSON object as received: its members in the order of the response
Payloads ==
    { <<<<"a", 1>>, <<"b", 2>>>>,
      <<<<"b", 2>>, <<"a", 1>>>>,
      <<<<"b", 2>>, <<"a", 3>>>> }

\* main.py:386-388  json.dumps(..., sort_keys=True, indent=2): one line per
\* member, the members ordered by key, between the two braces
Keys == <<"a", "b">>
Member(payload, key) ==
    LET i == CHOOSE j \in 1..Len(payload) : payload[j][1] = key IN payload[i]
HasKey(payload, key) == \E j \in 1..Len(payload) : payload[j][1] = key

RECURSIVE SortedMembers(_, _)
SortedMembers(payload, k) ==
    IF k > Len(Keys) THEN <<>>
    ELSE (IF HasKey(payload, Keys[k]) THEN <<Member(payload, Keys[k])>> ELSE <<>>)
         \o SortedMembers(payload, k + 1)

normalize_json(payload) == <<"{">> \o SortedMembers(payload, 1) \o <<"}">>

\* main.py:391-394  "" when the file does not exist
load_text_if_exists(name) == snapshots[name]

\* what the latest answer of an endpoint was and what the run did with it:
\* the endpoint, the answer, the payload, the snapshot read and whether the
\* snapshot file was written
NoPoll ==
    [name |-> "none", answer |-> "none", payload |-> <<>>, previous |-> <<>>,
     wrote |-> FALSE]

PoseIdle ==
    [pc |-> "idle", idx |-> 0, normalized |-> <<>>, previous |-> <<>>, diffLen |-> 0,
     texts |-> <<>>, send |-> NoSend, ended |-> "none", poll |-> NoPoll]

\* main.py:435-442  difflib is a library: the diff text of two different
\* snapshots is opaque here, and its length is one of these
DiffLens == {DIFF_INLINE_LIMIT, DIFF_INLINE_LIMIT + 1}

\* main.py:445  the header names the endpoint
Header(name) == <<"changes in", name>>

\* main.py:435-442  unified_diff(previous.splitlines(), normalized.splitlines())
UnifiedDiff(previous, normalized, n) == [from |-> previous, to |-> normalized, len |-> n]

\* main.py:447-454  the diff file and its caption
DiffDocument(name, previous, normalized, n) ==
    [document |-> <<name, "diff file", UnifiedDiff(previous, normalized, n)>>,
     caption |-> Header(name)]

\* main.py:456  the inline alert: the header and the diff text
ChangeAlert(name, previous, normalized, n) ==
    [kind |-> "change", header |-> Header(name), diffLen |-> n,
     diff |-> UnifiedDiff(previous, normalized, n)]

\* main.py:412-414  the for loop goes to its next endpoint, or ends
PoseContinue(rec) ==
    IF rec.idx = Len(Endpoints)
      THEN [PoseIdle EXCEPT !.pc = "returned", !.idx = rec.idx, !.ended = "endpoints done",
                            !.poll = rec.poll]
      ELSE [PoseIdle EXCEPT !.pc = "fetch", !.idx = rec.idx + 1, !.poll = rec.poll]

\* the loop of main.py:412 left at the first endpoint that is skipped
SkipEndsRun(rec) ==
    [PoseIdle EXCEPT !.pc = "returned", !.idx = rec.idx, !.ended = "endpoint skipped",
                     !.poll = rec.poll]

\* main.py:415-421  "continue" after a fetch fault or a status other than 200
SkipEndpoint(rec) == PoseContinue(rec)

\* the baseline branch of main.py:427-430 without its "continue"
BaselineAlerts(rec, name, normalized) ==
    [rec EXCEPT !.pc = "send_message", !.normalized = normalized,
                !.texts = <<[msg |-> ChangeAlert(name, <<>>, normalized, DIFF_INLINE_LIMIT),
                             outcome |-> "pending"]>>]

\* main.py:427-430  no snapshot: the poll is the baseline, the loop goes on
Baseline(rec, name, normalized) == PoseContinue(rec)

\* the comparison of main.py:432 made on the payload as received
SameAsReceived(previous, normalized, payload) ==
    previous = <<"{">> \o payload \o <<"}">>

\* main.py:432  previous == normalized
Same(previous, normalized, payload) == previous = normalized

\* the write of main.py:443 placed after the send
SnapshotKept(previous, normalized) == previous

\* main.py:443  data_path.write_text(normalized): the snapshot after a change
SnapshotWritten(previous, normalized) == normalized

\* the test of main.py:446 with the limit itself on the file side
TooLongAtLimit(n) == n >= DIFF_INLINE_LIMIT

\* main.py:446  len(diff_text) > 3500: the diff goes out as a file
TooLong(n) == n > DIFF_INLINE_LIMIT

\* main.py:397-414  entry: the token check and the first fetch
check_pose_endpoints(s) ==
    /\ Fn(s) = "check_pose_endpoints"
    /\ tasks[s].pc = "idle"
    /\ tasks' = [tasks EXCEPT ![s] =
          IF env.POSE_API_TOKEN
            THEN [PoseIdle EXCEPT !.pc = "fetch", !.idx = 1]
            ELSE [PoseIdle EXCEPT !.pc = "returned", !.ended = "no token"]]
    /\ UNCHANGED <<backup_in_progress, scheduler_running, snapshots, env,
                 probe, backup_dir, last_reported_progress>>

FetchFaults == {"fault", "non200"}

\* main.py:415-457  the endpoint answers: fault and non-200 skip it; 200 is
\* normalised and compared with the snapshot; a change overwrites the snapshot
\* and then sends the alert, as a text or as a file
PoseFetched(s) ==
    /\ Fn(s) = "check_pose_endpoints"
    /\ tasks[s].pc = "fetch"
    /\ LoopFree
    /\ LET name == Endpoints[tasks[s].idx] IN
       \/ /\ \E a \in FetchFaults :
               tasks' = [tasks EXCEPT ![s] =
                  SkipEndpoint([@ EXCEPT !.poll = [NoPoll EXCEPT !.name = name,
                                                                !.answer = a]])]
          /\ UNCHANGED snapshots
       \/ \E payload \in Payloads :
            LET normalized == normalize_json(payload)
                previous == load_text_if_exists(name)
                polled == [name |-> name, answer |-> "200", payload |-> payload,
                           previous |-> previous, wrote |-> FALSE]
            IN  IF previous = <<>>
                  THEN /\ snapshots' = [snapshots EXCEPT ![name] = normalized]
                       /\ tasks' = [tasks EXCEPT ![s] =
                             Baseline([@ EXCEPT !.poll = [polled EXCEPT !.wrote = TRUE]],
                                      name, normalized)]
                ELSE IF Same(previous, normalized, payload)
                  THEN /\ UNCHANGED snapshots
                       /\ tasks' = [tasks EXCEPT ![s] =
                             PoseContinue([@ EXCEPT !.poll = polled])]
                ELSE /\ snapshots' = [snapshots EXCEPT ![name] =
                                          SnapshotWritten(previous, normalized)]
                     /\ \E n \in DiffLens :
                          tasks' = [tasks EXCEPT ![s] =
                            IF TooLong(n)
                              THEN [@ EXCEPT !.pc = "send_document",
                                             !.normalized = normalized,
                                             !.previous = previous,
                                             !.diffLen = n,
                                             !.poll = [polled EXCEPT !.wrote = TRUE],
                                             !.send = FirstCall(DiffDocument(name, previous,
                                                                          normalized, n))]
                              ELSE [@ EXCEPT !.pc = "send_message",
                                             !.normalized = normalized,
                                             !.previous = previous,
                                             !.diffLen = n,
                                             !.poll = [polled EXCEPT !.wrote = TRUE],
                                             !.texts = <<[msg |-> ChangeAlert(name, previous,
                                                                             normalized, n),
                                                          outcome |-> "pending"]>>]]
    /\ UNCHANGED <<backup_in_progress, main_pc, scheduler_running, env,
                 probe, backup_dir, last_reported_progress>>

\* main.py:457  the transport answers the inline alert: nothing catches an
\* exception here, a rate limit included
PoseTextAnswered(s) ==
    /\ Fn(s) = "check_pose_endpoints"
    /\ tasks[s].pc = "send_message"
    /\ LoopFree
    /\ \E a \in TextAnswers :
         tasks' = [tasks EXCEPT ![s] =
            IF a = "ok"
              THEN PoseContinue(@)
              ELSE [@ EXCEPT !.pc = "raised", !.ended = "send_message raised",
                             !.texts = SetLast(@, "outcome", "raised_" \o a)]]
    /\ UNCHANGED <<backup_in_progress, main_pc, scheduler_running, snapshots, env,
                 probe, backup_dir, last_reported_progress>>

\* main.py:449-454  the transport answers the diff file: a rate limit is
\* retried, any other fault leaves the function
PoseDocAnswered(s) ==
    /\ Fn(s) = "check_pose_endpoints"
    /\ tasks[s].pc = "send_document"
    /\ LoopFree
    /\ \/ /\ tasks[s].send.floods < MaxFlood
          /\ \E v \in WaitValues :
                tasks' = [tasks EXCEPT ![s] = FloodWaitCaught(@, v)]
       \/ tasks' = [tasks EXCEPT ![s] = PoseContinue(@)]
       \/ tasks' = [tasks EXCEPT ![s] =
                [@ EXCEPT !.pc = "raised", !.ended = "send_document raised"]]
    /\ UNCHANGED <<backup_in_progress, main_pc, scheduler_running, snapshots, env,
                 probe, backup_dir, last_reported_progress>>

(***************************************************************************)
(* The scheduler, as main configures it (main.py:480, 502-532)             *)
(***************************************************************************)
IdleOf(s) ==
    CASE Fn(s) = "create_backup" -> BackupIdle
      [] Fn(s) = "check_bots_status" -> BotsIdle
      [] Fn(s) = "check_pose_endpoints" -> PoseIdle

SchedulerSlot(job) == <<JobFn(job), "scheduler", 0>>

\* the executions of a job id that the scheduler has submitted and that have
\* not finished
Instances(job) == IF tasks[SchedulerSlot(job)].pc = "idle" THEN 0 ELSE 1

\* the entry of the job function, up to its first await (the caller's own
\* position is the caller's to change)
Enter(s) ==
    CASE Fn(s) = "create_backup" -> create_backup(s)
      [] Fn(s) = "check_bots_status" -> check_bots_status(s)
      [] Fn(s) = "check_pose_endpoints" -> check_pose_endpoints(s)

\* main.py:503-530  an interval trigger fires: the job runs unless
\* max_instances executions of it are still running
Trigger(job) ==
    /\ scheduler_running
    /\ LoopFree
    /\ Instances(job) < max_instances
    /\ Enter(SchedulerSlot(job))
    /\ UNCHANGED main_pc

\* the executor sees the coroutine of a job end, normally or with an
\* exception (which it logs), and releases the instance
JobDone(job) ==
    /\ main_pc # "stopped"
    /\ tasks[SchedulerSlot(job)].pc \in {"returned", "raised"}
    /\ tasks' = [tasks EXCEPT ![SchedulerSlot(job)] = IdleOf(SchedulerSlot(job))]
    /\ UNCHANGED <<backup_in_progress, main_pc, scheduler_running, snapshots, env,
                 probe, backup_dir, last_reported_progress>>

(***************************************************************************)
(* main, main.py:460-574, from scheduler.start() on                        *)
(***************************************************************************)
BotsFirstRun == <<"check_bots_status", "main", 0>>
PoseFirstRun == <<"check_pose_endpoints", "main", 0>>

\* main.py:540-546  the delay is over: main calls check_bots_status itself
MainCallsBots ==
    /\ main_pc = "bots_delay"
    /\ LoopFree
    /\ main_pc' = "bots_first_run"
    /\ check_bots_status(BotsFirstRun)

\* main.py:566-574 and asyncio.run: the finally block stops the scheduler,
\* then the event loop cancels the tasks still running; a cancelled
\* create_backup runs its own finally block
Cancelled(s) ==
    IF Active(s) THEN [tasks[s] EXCEPT !.pc = "cancelled"] ELSE tasks[s]

MainStops ==
    /\ main_pc' = "stopped"
    /\ scheduler_running' = FALSE
    /\ tasks' = [s \in Slots |->
          IF s \in {BotsFirstRun, PoseFirstRun} THEN tasks[s] ELSE Cancelled(s)]
    /\ backup_in_progress' =
          IF \E s \in SlotsOf("create_backup") : Active(s)
            THEN FALSE ELSE backup_in_progress

\* main.py:546-558  the first run of check_bots_status is over: main goes on
\* to the next delay; an exception leaves main through its finally block
MainAfterBots ==
    /\ main_pc = "bots_first_run"
    /\ \/ /\ tasks[BotsFirstRun].pc = "returned"
          /\ main_pc' = "pose_delay"
          /\ tasks' = [tasks EXCEPT ![BotsFirstRun] = BotsIdle]
          /\ UNCHANGED <<backup_in_progress, scheduler_running>>
       \/ /\ tasks[BotsFirstRun].pc = "raised"
          /\ MainStops
    /\ UNCHANGED <<snapshots, env,
                 probe, backup_dir, last_reported_progress>>

\* main.py:553-559  the delay is over: main calls check_pose_endpoints itself
MainCallsPose ==
    /\ main_pc = "pose_delay"
    /\ LoopFree
    /\ main_pc' = "pose_first_run"
    /\ check_pose_endpoints(PoseFirstRun)

\* main.py:559-574  the first run of check_pose_endpoints is over: main
\* sleeps forever; an exception leaves main through its finally block
MainAfterPose ==
    /\ main_pc = "pose_first_run"
    /\ \/ /\ tasks[PoseFirstRun].pc = "returned"
          /\ main_pc' = "forever"
          /\ tasks' = [tasks EXCEPT ![PoseFirstRun] = PoseIdle]
          /\ UNCHANGED <<backup_in_progress, scheduler_running>>
       \/ /\ tasks[PoseFirstRun].pc = "raised"
          /\ MainStops
    /\ UNCHANGED <<snapshots, env,
                 probe, backup_dir, last_reported_progress>>

(***************************************************************************)
(* Callers of create_backup other than the scheduler                       *)
(***************************************************************************)
CallerSlot(c) == <<"create_backup", "caller", c>>

\* a caller invokes the module-level coroutine create_backup
Invoke(c) ==
    /\ LoopFree
    /\ create_backup(CallerSlot(c))
    /\ UNCHANGED main_pc

\* the caller has its result: the slot is free again
CallerDone(c) ==
    /\ main_pc # "stopped"
    /\ tasks[CallerSlot(c)].pc \in FinalPcs
    /\ tasks' = [tasks EXCEPT ![CallerSlot(c)] = BackupIdle]
    /\ UNCHANGED <<backup_in_progress, main_pc, scheduler_running, snapshots, env,
                 probe, backup_dir, last_reported_progress>>

(***************************************************************************)
(* Specifications                                                          *)
(***************************************************************************)
\* main.py:59  KEEP_LOCAL_BACKUPS = int(os.getenv(...)), here not negative
KeepCounts == 0..MaxKeep

Envs ==
    [CONTROL_API_KEY : BOOLEAN, POSE_API_TOKEN : BOOLEAN,
     KEEP_LOCAL_BACKUPS : KeepCounts]

InitCommon ==
    /\ backup_in_progress = FALSE
    /\ tasks = [s \in Slots |-> IdleOf(s)]
    /\ scheduler_running = TRUE
    /\ snapshots = [name \in EndpointNames |-> <<>>]
    /\ env \in Envs
    /\ probe = <<>>
    /\ backup_dir = <<>>
    /\ last_reported_progress = NOT_REPORTED

BackupSteps ==
    \/ \E s \in SlotsOf("create_backup") : DumpEnds(s)
    \/ \E s \in SlotsOf("create_backup") : NotifyAnswered(s)
    \/ \E s \in SlotsOf("create_backup") : UploadAnswered(s)
    \/ \E s \in SlotsOf("create_backup") : FloodSleepOver(s)

\* the transport reporting the progress of an upload
ProgressSteps == \E s \in SlotsOf("create_backup") : ProgressCalled(s)

BotsSteps ==
    \/ \E s \in SlotsOf("check_bots_status") : ContainersFetched(s)
    \/ \E s \in SlotsOf("check_bots_status") : RosterFetched(s)
    \/ \E s \in SlotsOf("check_bots_status") : GetMeAnswered(s)
    \/ \E s \in SlotsOf("check_bots_status") : BanAlertAnswered(s)

PoseSteps ==
    \/ \E s \in SlotsOf("check_pose_endpoints") : PoseFetched(s)
    \/ \E s \in SlotsOf("check_pose_endpoints") : PoseTextAnswered(s)
    \/ \E s \in SlotsOf("check_pose_endpoints") : PoseDocAnswered(s)
    \/ \E s \in SlotsOf("check_pose_endpoints") : FloodSleepOver(s)

MainSteps == MainCallsBots \/ MainAfterBots \/ MainCallsPose \/ MainAfterPose

\* the program: main, the scheduler and the three jobs
Init == InitCommon /\ main_pc = "bots_delay"

Next ==
    \/ \E job \in JobIds : Trigger(job)
    \/ \E job \in JobIds : JobDone(job)
    \/ MainSteps
    \/ BackupSteps
    \/ ProgressSteps
    \/ BotsSteps
    \/ PoseSteps

Spec == Init /\ [][Next]_vars

(***************************************************************************)
(* The three jobs share no variable: the flag belongs to create_backup,    *)
(* the snapshots to check_pose_endpoints.  The state graph of Spec is the  *)
(* product of the jobs' graphs, so the claims are checked on the           *)
(* restrictions of Spec to the steps of one job.  In the same way a        *)
(* progress callback writes the tracker and the log of the transfer, which *)
(* no other step reads: it is part of the restriction that is about it.    *)
(***************************************************************************)
\* create_backup under the scheduler's trigger and under direct callers
\* the two API options are read by the polling jobs only
InitBackup ==
    /\ InitCommon
    /\ main_pc = "forever"
    /\ env.CONTROL_API_KEY /\ env.POSE_API_TOKEN

NextBackup ==
    \/ Trigger("backup_job")
    \/ JobDone("backup_job")
    \/ \E c \in Callers : Invoke(c)
    \/ \E c \in Callers : CallerDone(c)
    \/ BackupSteps

SpecBackup == InitBackup /\ [][NextBackup]_vars

\* create_backup as main wires it: the interval trigger is its only caller
NextScheduled ==
    \/ Trigger("backup_job")
    \/ JobDone("backup_job")
    \/ BackupSteps

\* The assumptions of a run that ends: the dump tool exits or is killed at
\* its timeout (main.py:134), the transport answers every send, with the
\* rate limit at most MaxFlood times, a sleep ends, and the event loop runs
\* what is ready.  While a scheduled run is in flight its next step is the
\* only step there is (max_instances holds the trigger back), so this is
\* weak fairness of the next-state relation.
FairBackup == WF_vars(NextScheduled)

\* the retention count decides what a run deletes, not whether it ends
InitScheduled == InitBackup /\ env.KEEP_LOCAL_BACKUPS = 1

SpecBackupFair == InitScheduled /\ [][NextScheduled]_vars /\ FairBackup

\* one upload after another with the callbacks of the transport
NextTransfer ==
    \/ NextScheduled
    \/ ProgressSteps

SpecTransfer == InitScheduled /\ [][NextTransfer]_vars

\* the scheduler with backup_job and bot_check_job on the one event loop
NextDispatch ==
    \/ Trigger("backup_job")
    \/ JobDone("backup_job")
    \/ Trigger("bot_check_job")
    \/ JobDone("bot_check_job")
    \/ BackupSteps
    \/ BotsSteps

SpecDispatch == InitScheduled /\ [][NextDispatch]_vars

\* main with its two first runs, and the scheduler's pose_check_job
NextPose ==
    \/ Trigger("pose_check_job")
    \/ JobDone("pose_check_job")
    \/ MainSteps
    \/ BotsSteps
    \/ PoseSteps

\* the retention count is read by cleanup_old_backups only
InitPose == Init /\ env.KEEP_LOCAL_BACKUPS = MaxKeep

SpecPose == InitPose /\ [][NextPose]_vars

(***************************************************************************)
(* The failure message as a function of the detail string                  *)
(***************************************************************************)
ProbeLens == {0} \cup ((DETAILS_LIMIT - MaxOver)..(DETAILS_LIMIT + MaxOver))

NoMessage == [kind |-> "none", reason |-> <<>>, details |-> <<>>]

InitExcerpt ==
    /\ backup_in_progress = FALSE
    /\ tasks = [s \in Slots |-> IdleOf(s)]
    /\ main_pc = "forever"
    /\ scheduler_running = TRUE
    /\ snapshots = [name \in EndpointNames |-> <<>>]
    /\ env = [CONTROL_API_KEY |-> TRUE, POSE_API_TOKEN |-> TRUE,
              KEEP_LOCAL_BACKUPS |-> MaxKeep]
    /\ backup_dir = <<>>
    /\ last_reported_progress = NOT_REPORTED
    /\ \E n \in ProbeLens :
          probe = [stage |-> "called", details |-> Chars(n), message |-> NoMessage]

\* main.py:91-96  send_failure_notification composes its message
ComposeFailureMessage ==
    /\ probe.stage = "called"
    /\ probe' = [probe EXCEPT !.stage = "composed",
                              !.message = FailureMessage(GenericReason, probe.details)]
    /\ UNCHANGED <<backup_in_progress, tasks, main_pc, scheduler_running, snapshots, env,
                 backup_dir, last_reported_progress>>

SpecExcerpt == InitExcerpt /\ [][ComposeFailureMessage]_vars

(***************************************************************************)
(* cleanup_old_backups as a function of the directory it finds             *)
(***************************************************************************)
\* names that the pattern matches, and names that it does not
ProbeNames ==
    {BackupName("timestamp"), <<"mongodb_backup_", "timestamp", ".tmp">>,
     <<"notes_", "timestamp", ".gz">>}

\* directories of at most MaxFiles files with distinct modification times
ProbeDirs ==
    {{[name |-> at[t], mtime |-> t, made |-> "ok"] : t \in DOMAIN at} :
        at \in UNION {[T -> ProbeNames] : T \in SUBSET (1..MaxFiles)}}

InitRetention ==
    /\ backup_in_progress = FALSE
    /\ tasks = [s \in Slots |-> IdleOf(s)]
    /\ main_pc = "forever"
    /\ scheduler_running = TRUE
    /\ snapshots = [name \in EndpointNames |-> <<>>]
    /\ env \in {e \in Envs : e.CONTROL_API_KEY /\ e.POSE_API_TOKEN}
    /\ backup_dir = <<>>
    /\ last_reported_progress = NOT_REPORTED
    /\ \E files \in ProbeDirs, fault \in CleanupFaults :
          probe = [stage |-> "called", files |-> files, fault |-> fault,
                   after |-> files, raised |-> FALSE]

\* main.py:205-220  one call of cleanup_old_backups
CleanupCalled ==
    /\ probe.stage = "called"
    /\ LET pruned == Prune(probe.files, env.KEEP_LOCAL_BACKUPS, probe.fault) IN
       probe' = [probe EXCEPT !.stage = "done",
                              !.after = probe.files \ pruned.unlinked,
                              !.raised = pruned.raised]
    /\ UNCHANGED <<backup_in_progress, tasks, main_pc, scheduler_running, snapshots, env,
                   backup_dir, last_reported_progress>>

SpecRetention == InitRetention /\ [][CleanupCalled]_vars

(***************************************************************************)
(* Claims                                                                  *)
(***************************************************************************)
BackupSlots == SlotsOf("create_backup")

\* the executions of create_backup between setting the flag and clearing it
Holders == {s \in BackupSlots : tasks[s].setFlag /\ Active(s)}
Dumping == {s \in BackupSlots : tasks[s].pc = "dumping"}
Uploading == {s \in BackupSlots : tasks[s].pc \in {"send_document", "flood_sleep"}}

\* C1: at most one execution of create_backup is between setting
\* backup_in_progress and clearing it, the flag is true exactly while there is
\* one, and no two dumps and no two uploads are active at the same time.
C1_SingleFlight ==
    /\ Cardinality(Holders) <= 1
    /\ backup_in_progress <=> Holders # {}
    /\ Cardinality(Dumping) <= 1
    /\ Cardinality(Uploading) <= 1

\* a second invocation arrived while a run was in flight
C1_Witness ==
    \E s, t \in BackupSlots :
        /\ s # t
        /\ s \in Holders
        /\ tasks[t].pc = "returned" /\ tasks[t].skipped

\* C2 (as claimed): for every job function no two executions are active at
\* the same time, the first runs that main calls itself included.
C2_NoOverlap ==
    \A fn \in {JobFn(j) : j \in JobIds} :
        Cardinality({s \in SlotsOf(fn) : Active(s)}) <= 1

\* C3: when an execution of create_backup that set the flag has returned, by
\* whatever path, backup_in_progress is false.
C3_FlagClearedOnReturn ==
    \A s \in BackupSlots :
        (tasks[s].pc = "returned" /\ tasks[s].setFlag) => ~backup_in_progress

\* a run returned after a failed upload and a failed pruning
C3_Witness ==
    \E s \in BackupSlots :
        /\ tasks[s].pc = "returned" /\ tasks[s].setFlag
        /\ tasks[s].upload = "failed" /\ tasks[s].prune = "failed"

\* C4: an invocation of create_backup while backup_in_progress is true returns
\* at once: no dump, no message, no file, no pruning, and the flag, like
\* every other execution, is left as it was.
C4_EntryGuard ==
    [][\A s \in BackupSlots :
        (backup_in_progress /\ tasks[s].pc = "idle" /\ tasks'[s].pc # "idle")
        => /\ tasks'[s].pc = "returned"
           /\ tasks'[s].dumps = 0
           /\ tasks'[s].texts = <<>>
           /\ tasks'[s].send.calls = 0
           /\ tasks'[s].prunes = 0
           /\ ~tasks'[s].setFlag
           /\ backup_in_progress'
           /\ \A t \in Slots \ {s} : tasks'[t] = tasks[t]]_vars

\* an invocation was skipped while the run in flight still holds the flag
C4_Witness ==
    \E s, t \in BackupSlots :
        /\ tasks[t].skipped
        /\ tasks[s].setFlag /\ tasks[s].pc = "notify"
        /\ backup_in_progress

\* C5: a run whose dump exited with a non-zero code sends one failure
\* notification with the exit code and the captured error output, uploads
\* nothing, prunes nothing, ran the dump tool once, and returns normally.
C5_NonZeroExit ==
    \A s \in BackupSlots :
        tasks[s].dump = "nonzero" =>
            /\ tasks[s].pc \in {"notify", "returned"}
            /\ Len(tasks[s].texts) = 1
            /\ tasks[s].texts[1].msg.kind = "failure"
            /\ tasks[s].texts[1].msg.reason[2] = tasks[s].rc
            /\ tasks[s].rc # 0
            /\ tasks[s].texts[1].msg.details = tasks[s].stderr
            /\ tasks[s].send.calls = 0
            /\ tasks[s].upload = "none"
            /\ tasks[s].prunes = 0
            /\ tasks[s].dumps = 1

\* a run returned after exit code 1 with the error output "disk full"
C5_Witness ==
    \E s \in BackupSlots :
        /\ tasks[s].pc = "returned" /\ tasks[s].dump = "nonzero"
        /\ tasks[s].rc = 1 /\ tasks[s].stderr = DiskFull
        /\ tasks[s].texts[1].outcome = "delivered"

\* C6: a run whose dump timed out sends one failure notification, by the same
\* path, whose reason is the timeout reason and neither the exit-code reason
\* nor the generic one, and neither uploads nor prunes.
C6_Timeout ==
    \A s \in BackupSlots :
        tasks[s].dump = "timeout" =>
            /\ tasks[s].pc \in {"notify", "returned"}
            /\ Len(tasks[s].texts) = 1
            /\ tasks[s].texts[1].msg.kind = "failure"
            /\ tasks[s].texts[1].msg.reason = TimeoutReason
            /\ tasks[s].texts[1].msg.reason # GenericReason
            /\ \A rc \in ExitCodes : tasks[s].texts[1].msg.reason # ExitReason(rc)
            /\ tasks[s].send.calls = 0
            /\ tasks[s].upload = "none"
            /\ tasks[s].prunes = 0

\* a run returned after a timeout
C6_Witness ==
    \E s \in BackupSlots : tasks[s].pc = "returned" /\ tasks[s].dump = "timeout"

\* C7 (as claimed): the excerpt of the detail in the failure message has at
\* most 3500 characters, and is the detail itself when that has at most 3500.
C7_ExcerptWithinLimit ==
    probe.stage = "composed" =>
        /\ Len(probe.message.details) <= DETAILS_LIMIT
        /\ Len(probe.details) <= DETAILS_LIMIT => probe.message.details = probe.details

\* C7 (amended): the excerpt is the detail itself when that has at most 3500
\* characters; otherwise it is the first 3500 characters of the detail and a
\* three-character ellipsis, 3503 characters in all.
C7_ExcerptWithEllipsis ==
    probe.stage = "composed" =>
        LET d == probe.details
            e == probe.message.details
        IN  /\ Len(d) <= DETAILS_LIMIT => e = d
            /\ Len(d) > DETAILS_LIMIT =>
                 /\ Len(e) = DETAILS_LIMIT + 3
                 /\ \A i \in 1..DETAILS_LIMIT : e[i] = d[i]
                 /\ \A i \in (DETAILS_LIMIT + 1)..Len(e) : e[i] = "."

\* a message was composed from a detail longer than the limit
C7_Witness ==
    probe.stage = "composed" /\ Len(probe.details) > DETAILS_LIMIT

\* C8: in send_document_with_flood_wait every rate-limit answer is followed by
\* one sleep of at least max(requested wait, 1) seconds and one more
\* send_document call with the same arguments: after n rate-limit answers
\* there have been n sleeps, and n + 1 calls once the sleep is over and when
\* the send has succeeded.
C8_FloodWaitRetry ==
    \A s \in BackupSlots :
        LET d == tasks[s].send IN
        /\ d.sleeps = d.floods
        /\ d.floods > 0 => (d.slept >= d.wait /\ d.slept >= 1)
        /\ tasks[s].pc = "flood_sleep" => d.calls = d.floods
        /\ tasks[s].pc = "send_document" => d.calls = d.floods + 1
        /\ tasks[s].upload = "delivered" => d.calls = d.floods + 1
        /\ d.calls > 0 => d.sent = d.kwargs

\* the transport signalled the rate limit twice, the second time without a
\* wait, and then took the file
C8_Witness ==
    \E s \in BackupSlots :
        /\ tasks[s].upload = "delivered"
        /\ tasks[s].send.floods = 2
        /\ tasks[s].send.wait = 0

\* C9 (as claimed): a text send that the transport answers with the rate
\* limit is retried until it is delivered: it is neither dropped nor raised.
C9_TextSendsRetried ==
    \A s \in Slots :
        \A i \in 1..Len(tasks[s].texts) :
            tasks[s].texts[i].outcome \notin {"dropped_flood", "raised_flood"}

\* C10 (as claimed): no exception leaves a job function, and the scheduler
\* keeps running.
C10_FaultsContained ==
    /\ \A s \in Slots : tasks[s].pc # "raised"
    /\ scheduler_running

\* C11: after a call of cleanup_old_backups in which nothing raised, on a
\* directory of N matching files with distinct modification times and a keep
\* count K: if K < N exactly the K most recently modified matching files
\* remain, if N <= K no file is deleted, and in both cases every file that
\* does not match the pattern is still there.
C11_Retention ==
    (probe.stage = "done" /\ probe.fault = NoFault) =>
        LET matching == {f \in probe.files : Matches(f.name)}
            N == Cardinality(matching)
            K == env.KEEP_LOCAL_BACKUPS
            kept == probe.after \cap matching
        IN  /\ probe.after \subseteq probe.files
            /\ K < N =>
                 /\ Cardinality(kept) = K
                 /\ \A f \in kept, g \in matching \ kept : f.mtime > g.mtime
            /\ N <= K => probe.after = probe.files
            /\ (probe.files \ matching) \subseteq probe.after

\* one of two matching files was deleted under a keep count of 1, next to a
\* newer file that the pattern does not match
C11_Witness ==
    /\ probe.stage = "done" /\ probe.fault = NoFault
    /\ env.KEEP_LOCAL_BACKUPS = 1
    /\ Cardinality({f \in probe.files : Matches(f.name)}) = 2
    /\ Cardinality(probe.files) = 3
    /\ Cardinality(probe.after) = 2
    /\ \E f \in probe.after : ~Matches(f.name) /\ f.mtime = 3

PoseSlots == SlotsOf("check_pose_endpoints")

\* the step in which the run in slot s takes the answer of an endpoint
PollAnswered(s) ==
    /\ tasks[s].pc = "fetch"
    /\ tasks'[s] # tasks[s]
    /\ tasks'[s].pc # "cancelled"

\* the endpoint that the run in slot s is waiting for
Polling(s) == Endpoints[tasks[s].idx]

NoAlert(rec) == rec.texts = <<>> /\ rec.send.calls = 0

\* C12: when an endpoint answers 200 and no snapshot is stored for its name,
\* the poll stores the normalized payload as the snapshot, leaves the other
\* snapshot alone and sends neither a message nor a file: the run goes on to
\* its next endpoint or returns.
C12_Baseline ==
    [][\A s \in PoseSlots :
        (/\ PollAnswered(s)
         /\ tasks'[s].poll.answer = "200"
         /\ snapshots[Polling(s)] = <<>>)
        => /\ snapshots'[Polling(s)] = normalize_json(tasks'[s].poll.payload)
           /\ \A other \in EndpointNames \ {Polling(s)} :
                 snapshots'[other] = snapshots[other]
           /\ NoAlert(tasks'[s])
           /\ tasks'[s].pc \in {"fetch", "returned"}]_vars

\* a run took a first answer in the order b, a and stored it as a, b
C12_Witness ==
    \E s \in PoseSlots :
        /\ tasks[s].poll.answer = "200"
        /\ tasks[s].poll.previous = <<>>
        /\ tasks[s].poll.payload[1][1] = "b"
        /\ snapshots[tasks[s].poll.name] = normalize_json(tasks[s].poll.payload)
        /\ snapshots[tasks[s].poll.name][2][1] = "a"
        /\ tasks[s].pc = "returned"
        /\ NoAlert(tasks[s])

\* C13: a poll whose payload has the normal form that is stored as the
\* snapshot, whatever the order of its keys, writes no snapshot file and
\* sends neither a message nor a file.
C13_Idempotence ==
    [][\A s \in PoseSlots :
        (/\ PollAnswered(s)
         /\ tasks'[s].poll.answer = "200"
         /\ snapshots[Polling(s)] = normalize_json(tasks'[s].poll.payload))
        => /\ snapshots' = snapshots
           /\ ~tasks'[s].poll.wrote
           /\ NoAlert(tasks'[s])
           /\ tasks'[s].pc \in {"fetch", "returned"}]_vars

\* a poll answered with the keys in the order b, a found the snapshot that an
\* earlier poll had stored and did nothing
C13_Witness ==
    \E s \in PoseSlots :
        /\ tasks[s].poll.answer = "200"
        /\ tasks[s].poll.payload[1][1] = "b"
        /\ tasks[s].poll.previous = normalize_json(tasks[s].poll.payload)
        /\ ~tasks[s].poll.wrote
        /\ NoAlert(tasks[s])
        /\ tasks[s].pc = "returned"

\* C14: when an endpoint answers 200 with a payload whose normal form differs
\* from the stored, non-empty snapshot, the snapshot is the new normal form
\* by the time the alert is handed to the transport, and one alert is sent:
\* one message or one file, with the diff from the previous snapshot to the
\* new normal form.
C14_ChangeAlerted ==
    [][\A s \in PoseSlots :
        (/\ PollAnswered(s)
         /\ tasks'[s].poll.answer = "200"
         /\ snapshots[Polling(s)] # <<>>
         /\ snapshots[Polling(s)] # normalize_json(tasks'[s].poll.payload))
        => LET name == Polling(s)
               previous == snapshots[name]
               normalized == normalize_json(tasks'[s].poll.payload)
               rec == tasks'[s]
           IN  /\ snapshots'[name] = normalized
               /\ \/ /\ rec.pc = "send_message"
                     /\ Len(rec.texts) = 1
                     /\ rec.texts[1].msg.kind = "change"
                     /\ rec.texts[1].msg.header = Header(name)
                     /\ rec.texts[1].msg.diff.from = previous
                     /\ rec.texts[1].msg.diff.to = normalized
                     /\ rec.send.calls = 0
                  \/ /\ rec.pc = "send_document"
                     /\ rec.texts = <<>>
                     /\ rec.send.calls = 1
                     /\ rec.send.sent.caption = Header(name)
                     /\ rec.send.sent.document[3].from = previous
                     /\ rec.send.sent.document[3].to = normalized]_vars

\* the value of a changed endpoint went from 1 to 3: the snapshot is the new
\* normal form while the diff file is with the transport
C14_Witness ==
    \E s \in PoseSlots :
        /\ tasks[s].pc = "send_document"
        /\ tasks[s].poll.wrote
        /\ tasks[s].poll.previous # <<>>
        /\ tasks[s].poll.previous # normalize_json(tasks[s].poll.payload)
        /\ snapshots[tasks[s].poll.name] = normalize_json(tasks[s].poll.payload)
        /\ tasks[s].send.sent.document[3].from = tasks[s].poll.previous

BotsSlots == SlotsOf("check_bots_status")

\* C15: in a cycle of check_bots_status, for the roster item the loop is at
\* or has just finished: it is queried exactly when it has a token and its
\* container is in the inventory; it has one alert, naming its username and
\* number, exactly when its identity check answered 401; an answer of 200,
\* another status or a fault leaves it without an alert; an item without a
\* token or without a container is neither queried nor alerted.
C15_PerBot ==
    \A s \in BotsSlots :
        LET rec == tasks[s]
            bot == rec.cur
            eligible == bot.token /\ bot.number \in rec.inventory
        IN  bot.shape = "dict" =>
              /\ rec.queried = (IF eligible THEN 1 ELSE 0)
              /\ rec.status # "none" => rec.queried = 1
              /\ Len(rec.texts) = (IF rec.status = "401" THEN 1 ELSE 0)
              /\ rec.status = "401" =>
                    /\ rec.texts[1].msg.kind = "ban"
                    /\ rec.texts[1].msg.number = bot.number
                    /\ rec.texts[1].msg.username = bot.number
              /\ rec.pc = "get_me" => (eligible /\ rec.status = "none")
              /\ rec.pc = "send_message" => (eligible /\ rec.status = "401")

\* the roster ended with a bot that answered 401 and whose alert was
\* delivered
C15_Witness ==
    \E s \in BotsSlots :
        /\ tasks[s].pc = "returned" /\ tasks[s].ended = "roster done"
        /\ tasks[s].status = "401"
        /\ tasks[s].cur.number = 2
        /\ tasks[s].texts[1].outcome = "delivered"

\* the outcomes of a run that ends as failed
FailedOutcomes == {"nonzero", "timeout"}

\* C16 (as claimed): the archive of a failed run is not among the files that
\* a later cleanup_old_backups ranks: no cleanup in which nothing raised
\* deletes the archive of a successful run while it keeps that of a failed one.
C16_FailedRunsNotRanked ==
    \A s \in BackupSlots :
        (tasks[s].pc = "returned" /\ tasks[s].prune = "ok") =>
            ~(/\ "ok" \in tasks[s].unlinked
              /\ \E i \in 1..Len(backup_dir) :
                    /\ Matches(backup_dir[i].name)
                    /\ backup_dir[i].made \in FailedOutcomes)

\* C17: whenever backup_in_progress is true it is false again later: the
\* run that set it goes through its dump, its sends and its retries and
\* clears it, whatever the outcome of each.
C17_RunningLeadsToIdle == backup_in_progress ~> ~backup_in_progress

\* a run cleared the flag after the transport had signalled the rate limit
\* as often as it may and then refused the file
C17_Witness ==
    \E s \in BackupSlots :
        /\ tasks[s].pc = "returned" /\ tasks[s].setFlag
        /\ tasks[s].send.floods = MaxFlood
        /\ tasks[s].upload = "failed"
        /\ ~backup_in_progress

\* the steps of the health check that wait for nothing but the event loop
HealthCheckSteps == Trigger("bot_check_job") \/ BotsSteps

HealthCheckWaiting ==
    \/ Instances("bot_check_job") < max_instances
    \/ Active(SchedulerSlot("bot_check_job"))

\* C18 (as claimed): while the dump tool of a backup run is executing, the
\* scheduler can fire the trigger of the health check, and a health check
\* that is waiting for an answer can take it.
C18_DumpDoesNotBlock ==
    (Dumping # {} /\ scheduler_running /\ HealthCheckWaiting)
        => ENABLED HealthCheckSteps

\* the for loop of check_bots_status has gone on from the bot it was at: it
\* has read the next roster item, or the roster is exhausted
RosterGoesOn(s) ==
    \/ tasks'[s].left < tasks[s].left
    \/ /\ tasks[s].left = 0
       /\ tasks'[s].pc = "returned"
       /\ tasks'[s].ended = "roster done"

\* C19: in check_bots_status a fault or an unexpected status of one bot's
\* identity check, or a fault sending its alert, is followed by the next
\* roster item (or by the end of the roster); in check_pose_endpoints a fetch
\* fault or a status other than 200 changes no snapshot, sends nothing, and
\* is followed by the poll of the next endpoint (or by the end of the run).
C19_FaultIsolation ==
    [][/\ \A s \in BotsSlots :
            tasks'[s].faults > tasks[s].faults => RosterGoesOn(s)
       /\ \A s \in PoseSlots :
            (PollAnswered(s) /\ tasks'[s].poll.answer \in FetchFaults) =>
                /\ snapshots' = snapshots
                /\ NoAlert(tasks'[s])
                /\ tasks[s].idx < Len(Endpoints) =>
                      (tasks'[s].pc = "fetch" /\ tasks'[s].idx = tasks[s].idx + 1)
                /\ tasks[s].idx = Len(Endpoints) =>
                      (tasks'[s].pc = "returned" /\ tasks'[s].ended = "endpoints done")
      ]_vars

\* the second bot of a roster is being queried after the check or the alert
\* of the first failed; and a run polls its second endpoint after the fetch
\* of the first failed
C19_Witness ==
    /\ \E s \in BotsSlots :
          /\ tasks[s].pc = "get_me"
          /\ tasks[s].faults = 1
          /\ tasks[s].left = 0
    /\ \E s \in PoseSlots :
          /\ tasks[s].pc = "fetch" /\ tasks[s].idx = 2
          /\ tasks[s].poll.name = Endpoints[1]
          /\ tasks[s].poll.answer = "fault"

\* the step in which the transport calls progress_callback for the upload of
\* the run in slot s
CallbackTaken(s) ==
    /\ tasks[s].pc = "send_document"
    /\ tasks'[s].pc = "send_document"
    /\ tasks'[s] # tasks[s]

\* C20: the percentages logged in one transfer (one call of
\* send_to_telegram) are multiples of 10 in strictly increasing order; the
\* tracker is -1 when a transfer starts and is the last percentage logged
\* from then on; a callback with total = 0 logs nothing and leaves the
\* tracker alone; the first callback of a transfer whose percentage is a
\* multiple of 10, 0% included, is logged; and a callback logs at most its
\* own percentage.
C20_ProgressLogging ==
    /\ [](\A s \in BackupSlots :
            LET logged == tasks[s].logged IN
            /\ \A i \in 1..Len(logged) : logged[i] % 10 = 0
            /\ \A i, j \in 1..Len(logged) : i < j => logged[i] < logged[j]
            /\ tasks[s].pc \in {"send_document", "flood_sleep"} =>
                  last_reported_progress =
                      (IF logged = <<>> THEN -1 ELSE logged[Len(logged)]))
    /\ [][\A s \in BackupSlots :
            CallbackTaken(s) =>
                LET current == tasks'[s].callback[1]
                    total == tasks'[s].callback[2]
                    before == tasks[s].logged
                    after == tasks'[s].logged
                IN  /\ total = 0 =>
                          (after = before
                           /\ last_reported_progress' = last_reported_progress)
                    /\ total # 0 =>
                          LET percentage == (current * 100) \div total IN
                          /\ after \in {before, Append(before, percentage)}
                          /\ (percentage % 10 = 0 /\ before = <<>>) =>
                                after = <<percentage>>]_vars

\* a transfer logged 0% and 100%, was retried after a rate limit, and the
\* callback of the retry for 0% logged nothing more
C20_Witness ==
    \E s \in BackupSlots :
        /\ tasks[s].pc = "send_document"
        /\ tasks[s].send.calls = 2
        /\ tasks[s].logged = <<0, 100>>
        /\ tasks[s].callback = <<0, MaxTotal>>

\* the step in which the run in slot s finds that an endpoint has changed
ChangeDetected(s) ==
    /\ PollAnswered(s)
    /\ tasks'[s].poll.answer = "200"
    /\ snapshots[Polling(s)] # <<>>
    /\ snapshots[Polling(s)] # normalize_json(tasks'[s].poll.payload)

\* C21: for a detected change the alert goes out as one text message, made of
\* the header and the diff, exactly when the diff text has at most 3500
\* characters; a longer diff is written whole to a side file and that one file
\* is sent with the header as its caption, and no text message; the header
\* names the endpoint in both forms. While the file is with the transport no
\* text exists, and while the text is with the transport no file was sent.
C21_DeliveryForm ==
    /\ [][\A s \in PoseSlots :
            ChangeDetected(s)
            => LET name == Polling(s)
                   rec == tasks'[s]
               IN  /\ (rec.diffLen <= DIFF_INLINE_LIMIT) <=> (rec.pc = "send_message")
                   /\ (rec.diffLen > DIFF_INLINE_LIMIT) <=> (rec.pc = "send_document")
                   /\ rec.pc = "send_message"
                        => /\ Len(rec.texts) = 1
                           /\ rec.texts[1].msg.header = Header(name)
                           /\ rec.texts[1].msg.diffLen = rec.diffLen
                           /\ rec.send.calls = 0
                   /\ rec.pc = "send_document"
                        => /\ rec.texts = <<>>
                           /\ rec.send.calls = 1
                           /\ rec.send.sent.caption = Header(name)
                           /\ rec.send.sent.document[1] = name
                           /\ rec.send.sent.document[3].len = rec.diffLen]_vars
    /\ [](\A s \in PoseSlots :
            /\ tasks[s].pc = "send_message" => tasks[s].send.calls = 0
            /\ tasks[s].pc \in {"send_document", "flood_sleep"} => tasks[s].texts = <<>>)

\* a diff of exactly 3500 characters is with the transport as a text
C21_Witness ==
    \E s \in PoseSlots :
        /\ tasks[s].pc = "send_message"
        /\ tasks[s].diffLen = DIFF_INLINE_LIMIT
        /\ Len(tasks[s].texts) = 1
        /\ tasks[s].texts[1].msg.header = Header(tasks[s].poll.name)
        /\ tasks[s].send.calls = 0

\* C22: a run of create_backup calls cleanup_old_backups, once, exactly when
\* the dump exited with code 0 and the size of the archive was read, and not
\* before the upload attempt has returned; it calls it after a delivered and
\* after a failed upload alike, and a failed upload sends no failure
\* notification and leaves the run a successful one.
C22_PruneAfterUpload ==
    \A s \in BackupSlots :
        LET rec == tasks[s] IN
        /\ rec.prunes \in {0, 1}
        /\ rec.prunes = 1 => /\ rec.pc = "returned"
                             /\ rec.dump = "ok"
                             /\ rec.upload \in {"delivered", "failed"}
        /\ (rec.pc = "returned" /\ ~rec.skipped)
              => /\ (rec.prunes = 1) <=> (rec.dump = "ok")
                 /\ rec.dump = "ok" => rec.texts = <<>>
        /\ rec.upload = "failed" => /\ rec.prunes = 1
                                    /\ rec.prune \in {"ok", "failed"}
                                    /\ rec.texts = <<>>
                                    /\ rec.dump = "ok"
                                    /\ rec.pc = "returned"

\* the upload failed after a rate-limit retry and the run still pruned: the
\* oldest good archive is gone, nothing was notified
C22_Witness ==
    \E s \in BackupSlots :
        /\ tasks[s].pc = "returned"
        /\ tasks[s].upload = "failed"
        /\ tasks[s].send.floods > 0
        /\ tasks[s].prunes = 1
        /\ tasks[s].prune = "ok"
        /\ tasks[s].unlinked # {}
        /\ tasks[s].texts = <<>>

\* the run in slot s has left check_pose_endpoints through the send of an alert
AlertRefused(s) ==
    /\ tasks[s].pc = "raised"
    /\ tasks[s].ended \in {"send_message raised", "send_document raised"}

\* C23: a change whose alert the transport refused is not alerted later.
\* When the send of the alert of a change faults, the stored snapshot of the
\* endpoint is already the new normal form; and a poll that answers with the
\* normal form that is stored sends neither a message nor a file and leaves
\* the snapshots as they are.
C23_AlertedAtMostOnce ==
    /\ [](\A s \in PoseSlots :
            AlertRefused(s)
            => snapshots[Endpoints[tasks[s].idx]] = tasks[s].normalized)
    /\ [][\A s \in PoseSlots :
            (/\ PollAnswered(s)
             /\ tasks'[s].poll.answer = "200"
             /\ normalize_json(tasks'[s].poll.payload) = snapshots[Polling(s)])
            => /\ NoAlert(tasks'[s])
               /\ snapshots' = snapshots]_vars

====
